---- MODULE Spec2Model ----
(***************************************************************************)
(* Supermarket checkout: basket entries, the three discount strategies,    *)
(* the magnitude-ordered engine (OptimisedAnalysis) and checkout(skus),    *)
(* modelled from src/lib/solutions/CHK/checkout_solution.py.               *)
(*                                                                         *)
(* Prices that the code computes with float division (bulk_price /         *)
(* trigger_quantity, combo_price / trigger_quantity) are kept as exact     *)
(* fractions <<numerator, denominator>> in lowest terms.                   *)
(***************************************************************************)
EXTENDS Integers, Sequences, FiniteSets, TLC

VARIABLES
    skus,        \* checkout's argument: the sequence of SKU characters
    pos,         \* position of checkout's `for sku in skus` loop
    basket,      \* Basket.products: the list of Item entries
    rules,       \* discount_strategies, in the caller's order
    sorted,      \* discount_strategies_sorted, as indices into rules
    ri,          \* position of apply_discounts's for loop in sorted
    pc,          \* control point
    result,      \* checkout's return value (meaningful when pc = "returned")
    input,       \* the basket as it was handed to OptimisedAnalysis.run
    prevBasket,  \* the basket just before the latest apply_discount call
    lastRule,    \* the rule of the latest apply_discount call (NoRule: none)
    fired,       \* apply_discount calls made in the current rule's turn
    turnM,       \* non-discounted matching entries when the turn started
    run,         \* 1 for the first run, 2 for the re-run on a fresh copy
    firstBasket, \* the basket the first run ended with
    catalog,     \* the Item objects of main_dict, one per SKU
    owner,       \* per entry of basket: "" when the entry is an object of its
                 \* own (a copy), else the SKU of the main_dict object it is
    letters      \* analysis.py: the part of basket_letters the for loop of
                 \* apply_discounts has not taken yet

vars == <<skus, pos, basket, rules, sorted, ri, pc, result, input,
          prevBasket, lastRule, fired, turnM, run, firstBasket, catalog, owner,
          letters>>

-----------------------------------------------------------------------------
(* Bounds of the model *)

MaxBasket == 3
MaxRules == 2
MaxTrig == 2
MaxSkus == 3
\* Longest run of one SKU handed to checkout and to a rule run alone
MaxRepeat == 8

-----------------------------------------------------------------------------
(* Exact fractions *)

Abs(n) == IF n < 0 THEN -n ELSE n

RECURSIVE Gcd(_, _)
Gcd(a, b) == IF b = 0 THEN a ELSE Gcd(b, a % b)

\* n / d for d > 0, in lowest terms
Rat(n, d) == LET g == Gcd(Abs(n), d) IN <<n \div g, d \div g>>

RatAdd(x, y) == Rat(x[1] * y[2] + y[1] * x[2], x[2] * y[2])

RatLess(x, y) == x[1] * y[2] < y[1] * x[2]

RatLeq(x, y) == x[1] * y[2] <= y[1] * x[2]

\* int(round(x, 0)): round to nearest, ties to even
RoundHalfEven(x) ==
    LET fl == x[1] \div x[2]
        twice == 2 * (x[1] - fl * x[2])
    IN  IF twice < x[2] THEN fl
        ELSE IF twice > x[2] THEN fl + 1
        ELSE IF fl % 2 = 0 THEN fl ELSE fl + 1

-----------------------------------------------------------------------------
(* Python floats (IEEE 754 binary64), for the values 0 and 1 <= x < 2^12      *)
(*                                                                         *)
(* A float is [int |-> I, frac |-> <<f1, f2, f3, f4>>], the number          *)
(* I + f1 / 2^13 + f2 / 2^26 + f3 / 2^39 + f4 / 2^52 with limbs f < 2^13:   *)
(* every binary64 value in that range is such a number, with the lowest k  *)
(* bits of f4 zero when 2^k <= I < 2^(k+1) (53 significant bits).           *)
(***************************************************************************)

Radix == 2^13

FloatOfInt(n) == [int |-> n, frac |-> <<0, 0, 0, 0>>]

\* k with 2^k <= n < 2^(k+1), for n >= 1; 0 for n = 0
RECURSIVE Log2Floor(_)
Log2Floor(n) == IF n <= 1 THEN 0 ELSE 1 + Log2Floor(n \div 2)

\* I + F / 2^52 + G / 2^52 for limb sequences F, G: the limbs are added from
\* the lowest up, the carry of the highest goes to the integer part
AddLimbs(I, F, G) ==
    LET s4 == F[4] + G[4]
        s3 == F[3] + G[3] + s4 \div Radix
        s2 == F[2] + G[2] + s3 \div Radix
        s1 == F[1] + G[1] + s2 \div Radix
    IN  [int |-> I + s1 \div Radix,
         frac |-> <<s1 % Radix, s2 % Radix, s3 % Radix, s4 % Radix>>]

\* The binary64 value nearest to I + (F + r / d) / 2^52, ties to even, where
\* 0 <= r < d: the k lowest bits of F and the tail r / d are rounded away
FloatRound(I, F, r, d) ==
    LET k == Log2Floor(I)
        M == 2^k
        low == F[4] % M
        kept == <<F[1], F[2], F[3], F[4] - low>>
        twice == 2 * (low * d + r)
        odd == ((F[4] \div M) % 2) = 1
        up == twice > M * d \/ (twice = M * d /\ odd)
    IN  IF up THEN AddLimbs(I, kept, <<0, 0, 0, M>>)
        ELSE [int |-> I, frac |-> kept]

\* The float n / d of two ints, 0 <= n, 1 <= d: long division to 52 binary
\* places, then rounding with the remainder as the tail
FloatDiv(n, d) ==
    LET r0 == n % d
        f1 == (r0 * Radix) \div d
        r1 == (r0 * Radix) % d
        f2 == (r1 * Radix) \div d
        r2 == (r1 * Radix) % d
        f3 == (r2 * Radix) \div d
        r3 == (r2 * Radix) % d
        f4 == (r3 * Radix) \div d
        r4 == (r3 * Radix) % d
    IN  FloatRound(n \div d, <<f1, f2, f3, f4>>, r4, d)

\* The float x + y: the exact sum, rounded
FloatAdd(x, y) ==
    LET exact == AddLimbs(x.int + y.int, x.frac, y.frac)
    IN  FloatRound(exact.int, exact.frac, 0, 1)

\* x is a whole number
FloatIsWhole(x) == x.frac = <<0, 0, 0, 0>>

\* int(round(x, 0)) of a float: to the nearest whole number, ties to even
FloatToInt(x) ==
    LET half == Radix \div 2
        rest == x.frac[2] + x.frac[3] + x.frac[4]
        above == x.frac[1] > half \/ (x.frac[1] = half /\ rest > 0)
        tie == x.frac[1] = half /\ rest = 0
    IN  IF above \/ (tie /\ x.int % 2 = 1) THEN x.int + 1 ELSE x.int

-----------------------------------------------------------------------------
(* Items and the catalog *)

main_dict ==
    [A |-> 50, B |-> 30, C |-> 20, D |-> 15, E |-> 40, F |-> 10, G |-> 20,
     H |-> 10, I |-> 35, J |-> 60, K |-> 70, L |-> 90, M |-> 15, N |-> 40,
     O |-> 10, P |-> 50, Q |-> 30, R |-> 50, S |-> 20, T |-> 20, U |-> 40,
     V |-> 50, W |-> 20, X |-> 17, Y |-> 20, Z |-> 21]

\* Item(sku, price): __post_init__ sets discounted_price to the price
Item(s, p) ==
    [sku |-> s, price |-> p, discounted_price |-> <<p, 1>>, discounted |-> FALSE]

CatalogItem(s) == Item(s, main_dict[s])

\* The objects main_dict holds when checkout has built it
Catalog == [s \in DOMAIN main_dict |-> CatalogItem(s)]

\* Basket.add_product: a deep copy of the product is appended
add_product(b, product) == Append(b, product)

-----------------------------------------------------------------------------
(* Discount strategies *)

NoItem == [sku |-> "", price |-> 0, discounted_price |-> <<0, 1>>, discounted |-> FALSE]

NoRule ==
    [kind |-> "none", item |-> NoItem, trigger_quantity |-> 0, bulk_price |-> 0,
     discounted_item |-> NoItem, items |-> <<>>, combo_price |-> 0,
     letters_affected |-> {}, magnitude |-> <<0, 1>>]

RECURSIVE SumPrices(_)
SumPrices(its) ==
    IF its = <<>> THEN 0 ELSE its[1].price + SumPrices(Tail(its))

\* BulkDiscount.calculate_magnitude: item.price * trigger_quantity - bulk_price
BulkMagnitude(item, q, bulkPrice) == <<item.price * q - bulkPrice, 1>>

\* FreeItemDiscount.calculate_magnitude: discounted_item.price
FreeMagnitude(discountedItem) == <<discountedItem.price, 1>>

\* ComboDiscount.calculate_magnitude:
\*   (sum(prices) / len(items) - combo_price / trigger_quantity) * trigger_quantity
ComboMagnitude(its, comboPrice, q) ==
    Rat(SumPrices(its) * q - comboPrice * Len(its), Len(its))

BulkDiscount(it, q, bulkPrice) ==
    [kind |-> "bulk", item |-> it, trigger_quantity |-> q, bulk_price |-> bulkPrice,
     discounted_item |-> NoItem, items |-> <<>>, combo_price |-> 0,
     letters_affected |-> {it.sku},
     magnitude |-> BulkMagnitude(it, q, bulkPrice)]

FreeItemDiscount(it, q, discountedItem) ==
    [kind |-> "free", item |-> it, trigger_quantity |-> q, bulk_price |-> 0,
     discounted_item |-> discountedItem, items |-> <<>>, combo_price |-> 0,
     letters_affected |-> {it.sku},
     magnitude |-> FreeMagnitude(discountedItem)]

ComboDiscount(its, comboPrice, q) ==
    [kind |-> "combo", item |-> its[1], trigger_quantity |-> q, bulk_price |-> 0,
     discounted_item |-> NoItem, items |-> its, combo_price |-> comboPrice,
     letters_affected |-> {its[i].sku : i \in 1..Len(its)},
     magnitude |-> ComboMagnitude(its, comboPrice, q)]

\* The trigger predicate of a rule on one entry
Matches(r, e) ==
    IF r.kind = "combo" THEN e.sku \in r.letters_affected ELSE e.sku = r.item.sku

\* Mutant: the loops do not test `not product.discounted`
EligibleAnyFlag(r, b) ==
    LET Test(i) == Matches(r, b[i])
    IN  SelectSeq([i \in 1..Len(b) |-> i], Test)

\* The positions of the non-discounted entries matching the rule, in basket order
Eligible(r, b) ==
    LET Test(i) == Matches(r, b[i]) /\ ~b[i].discounted
    IN  SelectSeq([i \in 1..Len(b) |-> i], Test)

\* The trigger_count the is_applicable loops compute
trigger_count(r, b) == Len(Eligible(r, b))

\* Mutant: the comparison is off by one, a rule fires one entry short
is_applicableOneShort(r, b) == trigger_count(r, b) >= r.trigger_quantity - 1

is_applicable(r, b) == trigger_count(r, b) >= r.trigger_quantity

\* The first n elements of a sequence (none when n <= 0, all when n > Len)
Take(s, n) ==
    IF n <= 0 THEN <<>> ELSE IF n >= Len(s) THEN s ELSE SubSeq(s, 1, n)

Range(s) == {s[i] : i \in 1..Len(s)}

\* The entries at the positions of S get the price p and the flag
Claim(b, S, p) ==
    [i \in 1..Len(b) |->
        IF i \in S THEN [b[i] EXCEPT !.discounted_price = p, !.discounted = TRUE]
        ELSE b[i]]

\* The entries at the positions of S get the flag; their price stays
Flag(b, S) ==
    [i \in 1..Len(b) |->
        IF i \in S THEN [b[i] EXCEPT !.discounted = TRUE] ELSE b[i]]

\* Mutant: the price is rewritten but `product.discounted = True` is forgotten
BulkApplyPriceOnly(r, b) ==
    IF is_applicable(r, b)
    THEN [i \in 1..Len(b) |->
            IF i \in Range(Take(Eligible(r, b), r.trigger_quantity))
            THEN [b[i] EXCEPT !.discounted_price = Rat(r.bulk_price, r.trigger_quantity)]
            ELSE b[i]]
    ELSE b

\* Mutant: the loop stops after the first claimed entry
BulkApplyOneEntry(r, b) ==
    IF is_applicable(r, b)
    THEN Claim(b, Range(Take(Eligible(r, b), 1)),
               Rat(r.bulk_price, r.trigger_quantity))
    ELSE b

\* Mutant: the unit price is the whole-number quotient bulk_price // quantity
BulkApplyFloorDiv(r, b) ==
    IF is_applicable(r, b)
    THEN Claim(b, Range(Take(Eligible(r, b), r.trigger_quantity)),
               <<r.bulk_price \div r.trigger_quantity, 1>>)
    ELSE b

\* Mutant: the loop bound is one short, an application claims q - 1 entries
BulkApplyShortGroup(r, b) ==
    IF is_applicable(r, b)
    THEN Claim(b, Range(Take(Eligible(r, b), r.trigger_quantity - 1)),
               Rat(r.bulk_price, r.trigger_quantity))
    ELSE b

\* Mutant: each claimed entry gets the whole bulk price, the division is missing
BulkApplyWholePrice(r, b) ==
    IF is_applicable(r, b)
    THEN Claim(b, Range(Take(Eligible(r, b), r.trigger_quantity)),
               <<r.bulk_price, 1>>)
    ELSE b

\* BulkDiscount.apply_discount
BulkApply(r, b) ==
    IF is_applicable(r, b)
    THEN Claim(b, Range(Take(Eligible(r, b), r.trigger_quantity)),
               Rat(r.bulk_price, r.trigger_quantity))
    ELSE b

\* Mutant: the trigger loop has no break, it flags every matching entry
FreeTriggersNoBreak(r, b) == Eligible(r, b)

\* The trigger loop of FreeItemDiscount.apply_discount: it breaks when the count
\* reaches trigger_quantity, which it never does for a trigger_quantity <= 0
FreeTriggers(r, b) ==
    IF r.trigger_quantity >= 1 THEN Take(Eligible(r, b), r.trigger_quantity)
    ELSE Eligible(r, b)

\* Mutant: the free-unit lookup does not test `not product.discounted`
FreeGrantAnyEntry(r, b) ==
    LET Test(i) == b[i].sku = r.discounted_item.sku
        found == SelectSeq([i \in 1..Len(b) |-> i], Test)
    IN  IF found # <<>>
        THEN Claim(b, {found[1]}, <<0, 1>>)
        ELSE add_product(b, [r.discounted_item EXCEPT
                                !.discounted_price = <<0, 1>>,
                                !.discounted = TRUE])

\* Mutant: the synthesized entry is appended without its discounted flag
FreeGrantUnflagged(r, b) ==
    LET Test(i) == b[i].sku = r.discounted_item.sku /\ ~b[i].discounted
        found == SelectSeq([i \in 1..Len(b) |-> i], Test)
    IN  IF found # <<>>
        THEN Claim(b, {found[1]}, <<0, 1>>)
        ELSE add_product(b, [r.discounted_item EXCEPT
                                !.discounted_price = <<0, 1>>])

\* Mutant: the `return` after the lookup is missing, an entry is always appended
FreeGrantAlwaysAppend(r, b) ==
    LET Test(i) == b[i].sku = r.discounted_item.sku /\ ~b[i].discounted
        found == SelectSeq([i \in 1..Len(b) |-> i], Test)
        granted == IF found # <<>> THEN Claim(b, {found[1]}, <<0, 1>>) ELSE b
    IN  add_product(granted, [r.discounted_item EXCEPT
                                !.discounted_price = <<0, 1>>,
                                !.discounted = TRUE])

\* Mutant: the appended copy is flagged but keeps its unit price
FreeGrantFullPrice(r, b) ==
    LET Test(i) == b[i].sku = r.discounted_item.sku /\ ~b[i].discounted
        found == SelectSeq([i \in 1..Len(b) |-> i], Test)
    IN  IF found # <<>>
        THEN Claim(b, {found[1]}, <<0, 1>>)
        ELSE add_product(b, [r.discounted_item EXCEPT !.discounted = TRUE])

\* The free-unit part of FreeItemDiscount.apply_discount, on the basket whose
\* triggers are claimed
FreeGrant(r, b) ==
    LET Test(i) == b[i].sku = r.discounted_item.sku /\ ~b[i].discounted
        found == SelectSeq([i \in 1..Len(b) |-> i], Test)
    IN  IF found # <<>>
        THEN Claim(b, {found[1]}, <<0, 1>>)
        ELSE add_product(b, [r.discounted_item EXCEPT
                                !.discounted_price = <<0, 1>>,
                                !.discounted = TRUE])

\* Mutant: the free unit is looked up before the triggers are claimed
FreeApplyGrantFirst(r, b) ==
    IF is_applicable(r, b)
    THEN LET granted == FreeGrant(r, b)
         IN  Flag(granted, Range(FreeTriggers(r, granted)))
    ELSE b

\* Mutant: the `if self.is_applicable(basket)` guard is missing
FreeApplyUnguarded(r, b) ==
    FreeGrant(r, Flag(b, Range(FreeTriggers(r, b))))

\* FreeItemDiscount.apply_discount
FreeApply(r, b) ==
    IF is_applicable(r, b)
    THEN FreeGrant(r, Flag(b, Range(FreeTriggers(r, b))))
    ELSE b

\* Mutant: a descending sort that reverses the order of equal keys
RECURSIVE SortDescTiesReversed(_, _)
SortDescTiesReversed(ids, key) ==
    IF ids = <<>> THEN <<>>
    ELSE LET rest == SortDescTiesReversed(SubSeq(ids, 1, Len(ids) - 1), key)
             x == ids[Len(ids)]
             p == Cardinality({j \in 1..Len(rest) : RatLess(key[x], key[rest[j]])})
         IN  SubSeq(rest, 1, p) \o <<x>> \o SubSeq(rest, p + 1, Len(rest))

\* list.sort(key, reverse=True) and sorted(key, reverse=True): a stable sort,
\* descending; ids is a sequence of positions and key[i] the fraction of i
RECURSIVE SortDesc(_, _)
SortDesc(ids, key) ==
    IF ids = <<>> THEN <<>>
    ELSE LET rest == SortDesc(SubSeq(ids, 1, Len(ids) - 1), key)
             x == ids[Len(ids)]
             p == Cardinality({j \in 1..Len(rest) : RatLeq(key[x], key[rest[j]])})
         IN  SubSeq(rest, 1, p) \o <<x>> \o SubSeq(rest, p + 1, Len(rest))

\* Mutant: applicable_items is not sorted, the entries are taken in basket order
ComboOrderAsListed(r, b) == Eligible(r, b)

\* Mutant: the sort by price puts entries of equal price in reverse basket order
ComboOrderTiesReversed(r, b) ==
    SortDescTiesReversed(Eligible(r, b), [i \in 1..Len(b) |-> <<b[i].price, 1>>])

\* applicable_items after its sort by price, descending
ComboOrder(r, b) ==
    SortDesc(Eligible(r, b), [i \in 1..Len(b) |-> <<b[i].price, 1>>])

\* Mutant: the combo price is written but `discounted = True` is forgotten
ComboApplyPriceOnly(r, b) ==
    IF ~is_applicable(r, b) THEN b
    ELSE [i \in 1..Len(b) |->
            IF i \in Range(Take(ComboOrder(r, b), r.trigger_quantity))
            THEN [b[i] EXCEPT !.discounted_price = Rat(r.combo_price, r.trigger_quantity)]
            ELSE b[i]]

\* ComboDiscount.apply_discount
ComboApply(r, b) ==
    IF ~is_applicable(r, b) THEN b
    ELSE Claim(b, Range(Take(ComboOrder(r, b), r.trigger_quantity)),
               Rat(r.combo_price, r.trigger_quantity))

apply_discount(r, b) ==
    CASE r.kind = "bulk" -> BulkApply(r, b)
      [] r.kind = "free" -> FreeApply(r, b)
      [] r.kind = "combo" -> ComboApply(r, b)
      [] OTHER -> b

\* CheckoutProcess.total_price
RECURSIVE total_price(_)
total_price(b) ==
    IF b = <<>> THEN <<0, 1>>
    ELSE RatAdd(b[1].discounted_price, total_price(Tail(b)))

\* CheckoutProcess.total_price as Python computes it: sum() adds the floats of
\* the entries from the first to the last, starting from 0; the float of an
\* entry is its price p / q as the division bulk_price / trigger_quantity or
\* combo_price / trigger_quantity gave it
RECURSIVE float_sum(_, _)
float_sum(b, k) ==
    IF k = 0 THEN FloatOfInt(0)
    ELSE FloatAdd(float_sum(b, k - 1),
                  FloatDiv(b[k].discounted_price[1], b[k].discounted_price[2]))

float_total_price(b) == float_sum(b, Len(b))

\* Mutant: the rules are tried in the order of the list, without the sort
SortedStrategiesAsListed(rs) == [i \in 1..Len(rs) |-> i]

\* sorted(discount_strategies, key=magnitude, reverse=True), as positions
SortedStrategies(rs) ==
    SortDesc([i \in 1..Len(rs) |-> i], [i \in 1..Len(rs) |-> rs[i].magnitude])

-----------------------------------------------------------------------------
(* The shipped rule list of checkout *)

discount_strategies ==
    << BulkDiscount(CatalogItem("A"), 3, 130),
       BulkDiscount(CatalogItem("A"), 5, 200),
       BulkDiscount(CatalogItem("B"), 2, 45),
       FreeItemDiscount(CatalogItem("E"), 2, CatalogItem("B")),
       FreeItemDiscount(CatalogItem("F"), 2, CatalogItem("F")),
       BulkDiscount(CatalogItem("H"), 5, 45),
       BulkDiscount(CatalogItem("H"), 10, 80),
       BulkDiscount(CatalogItem("K"), 2, 120),
       FreeItemDiscount(CatalogItem("N"), 3, CatalogItem("M")),
       BulkDiscount(CatalogItem("P"), 5, 200),
       BulkDiscount(CatalogItem("Q"), 3, 80),
       FreeItemDiscount(CatalogItem("R"), 3, CatalogItem("Q")),
       FreeItemDiscount(CatalogItem("U"), 3, CatalogItem("U")),
       BulkDiscount(CatalogItem("V"), 2, 90),
       BulkDiscount(CatalogItem("V"), 3, 130),
       ComboDiscount(<<CatalogItem("S"), CatalogItem("T"), CatalogItem("X"),
                       CatalogItem("Y"), CatalogItem("Z")>>, 45, 3) >>

-----------------------------------------------------------------------------
(* Inputs of the model *)

\* The SKUs of the baskets and rules handed to the engine
EngineSkus == {"A", "B"}

EngineItems == {CatalogItem(s) : s \in EngineSkus}

\* The bulk price of q units: 5 less per unit and 5 less again, which gives the
\* shipped 3-for-130 on A and 2-for-45 on B
BulkPrices(it, q) == {it.price * q - 5 * (q + 1)}

ComboPrices == {45}

ComboItemLists == {<<CatalogItem("A"), CatalogItem("B")>>}

RulePool ==
    UNION {{BulkDiscount(it, q, p) : p \in BulkPrices(it, q)} :
              it \in EngineItems, q \in 1..MaxTrig}
    \cup {FreeItemDiscount(it, q, d) : it \in EngineItems, q \in 1..MaxTrig, d \in EngineItems}
    \cup {ComboDiscount(its, p, q) : its \in ComboItemLists, p \in ComboPrices, q \in 1..MaxTrig}

RuleLists == UNION {[1..n -> RulePool] : n \in 0..MaxRules}

Baskets == UNION {[1..n -> EngineItems] : n \in 0..MaxBasket}

\* The characters checkout is called with: catalog SKUs and two that are not
SkuChars == {"A", "B", "E", "F", "V", "S", "X", "1", "a"}

\* Two SKUs of the shipped combo rule, of different prices
ComboChars == {"S", "X"}

\* Two SKUs with shipped bulk rules, one of them with a price that is not a
\* binary fraction (130 / 3)
BulkChars == {"A", "B"}

\* The strings handed to checkout: every string of up to MaxSkus characters of
\* SkuChars, every one-character string of the catalog, the runs of one
\* catalog SKU of SkuChars up to MaxRepeat characters long, and the strings of
\* ComboChars and of BulkChars one character longer than MaxSkus
SkuStrings ==
    UNION {[1..n -> SkuChars] : n \in 0..MaxSkus}
    \cup {<<c>> : c \in DOMAIN main_dict}
    \cup UNION {[1..n -> {c}] : n \in 0..MaxRepeat, c \in SkuChars \cap DOMAIN main_dict}
    \cup [1..(MaxSkus + 1) -> ComboChars]
    \cup [1..(MaxSkus + 1) -> BulkChars]

-----------------------------------------------------------------------------
(* The engine: OptimisedAnalysis.run and apply_discounts *)

CurrentRule == rules[sorted[ri]]

\* The turn of the rule at position k of `srt` starts on basket b
TurnStart(rs, srt, k, b) ==
    IF k <= Len(srt) THEN trigger_count(rs[srt[k]], b) ELSE 0

\* Mutant: an unstable sort, rules of equal magnitude end up in any order
SortRulesAnyOrder ==
    /\ pc = "sort"
    /\ \E p \in Permutations(1..Len(rules)) :
          /\ \A i, j \in 1..Len(rules) :
                i < j => RatLeq(rules[p[j]].magnitude, rules[p[i]].magnitude)
          /\ sorted' = p
    /\ ri' = 1
    /\ fired' = 0
    /\ turnM' = TurnStart(rules, sorted', 1, basket)
    /\ pc' = "loop"
    /\ UNCHANGED <<skus, pos, basket, rules, result, input, prevBasket, lastRule,
                   run, firstBasket, catalog, owner,
                   letters>>

\* Mutant: the caller's list is sorted in place, discount_strategies.sort(...)
SortRulesInPlace ==
    /\ pc = "sort"
    /\ rules' = [i \in 1..Len(rules) |-> rules[SortedStrategies(rules)[i]]]
    /\ sorted' = [i \in 1..Len(rules) |-> i]
    /\ ri' = 1
    /\ fired' = 0
    /\ turnM' = TurnStart(rules', sorted', 1, basket)
    /\ pc' = "loop"
    /\ UNCHANGED <<skus, pos, basket, result, input, prevBasket, lastRule,
                   run, firstBasket, catalog, owner,
                   letters>>

\* run: discount_strategies_sorted = sorted(..., key=magnitude, reverse=True)
SortRules ==
    /\ pc = "sort"
    /\ sorted' = SortedStrategies(rules)
    /\ ri' = 1
    /\ fired' = 0
    /\ turnM' = TurnStart(rules, sorted', 1, basket)
    /\ pc' = "loop"
    /\ UNCHANGED <<skus, pos, basket, rules, result, input, prevBasket, lastRule,
                   run, firstBasket, catalog, owner,
                   letters>>

\* apply_discounts: the while test is true, apply_discount is called
ApplyDiscount ==
    /\ pc = "loop"
    /\ ri <= Len(sorted)
    /\ is_applicable(CurrentRule, basket)
    /\ basket' = apply_discount(CurrentRule, basket)
    /\ prevBasket' = basket
    /\ lastRule' = CurrentRule
    /\ fired' = fired + 1
    /\ UNCHANGED <<skus, pos, rules, sorted, ri, pc, result, input, turnM,
                   run, firstBasket, catalog, owner,
                   letters>>

\* apply_discounts: the while test is false, the for loop moves on
NextRule ==
    /\ pc = "loop"
    /\ ri <= Len(sorted)
    /\ ~is_applicable(CurrentRule, basket)
    /\ ri' = ri + 1
    /\ fired' = 0
    /\ turnM' = TurnStart(rules, sorted, ri + 1, basket)
    /\ UNCHANGED <<skus, pos, basket, rules, sorted, pc, result, input,
                   prevBasket, lastRule, run, firstBasket, catalog, owner,
                   letters>>

\* apply_discounts: the for loop is over, the basket is returned
ReturnBasket ==
    /\ pc = "loop"
    /\ ri > Len(sorted)
    /\ pc' = "done"
    /\ UNCHANGED <<skus, pos, basket, rules, sorted, ri, result, input,
                   prevBasket, lastRule, fired, turnM, run, firstBasket, catalog, owner,
                   letters>>

EngineInit ==
    /\ skus = <<>>
    /\ pos = 0
    /\ basket \in Baskets
    /\ rules \in RuleLists
    /\ sorted = <<>>
    /\ ri = 0
    /\ pc = "sort"
    /\ result = 0
    /\ input = basket
    /\ prevBasket = <<>>
    /\ lastRule = NoRule
    /\ fired = 0
    /\ turnM = 0
    /\ run = 1
    /\ firstBasket = <<>>
    /\ catalog = Catalog
    /\ owner = <<>>
    /\ letters = {}

Init == EngineInit

Next == SortRules \/ ApplyDiscount \/ NextRule \/ ReturnBasket

Spec == Init /\ [][Next]_vars

-----------------------------------------------------------------------------
(* Two runs of the engine on fresh copies of the same basket *)

\* The caller keeps the first run's basket and calls run again on a fresh copy
RunAgain ==
    /\ pc = "done"
    /\ run = 1
    /\ run' = 2
    /\ firstBasket' = basket
    /\ basket' = input
    /\ sorted' = <<>>
    /\ ri' = 0
    /\ pc' = "sort"
    /\ prevBasket' = <<>>
    /\ lastRule' = NoRule
    /\ fired' = 0
    /\ turnM' = 0
    /\ UNCHANGED <<skus, pos, rules, result, input, catalog, owner,
                   letters>>

NextTwoRuns == SortRules \/ ApplyDiscount \/ NextRule \/ ReturnBasket \/ RunAgain

TwoRunSpec == Init /\ [][NextTwoRuns]_vars

-----------------------------------------------------------------------------
(* apply_discount called by a caller that does not check is_applicable *)

CallInit ==
    /\ skus = <<>>
    /\ pos = 0
    /\ basket \in Baskets
    /\ rules = <<>>
    /\ sorted = <<>>
    /\ ri = 0
    /\ pc = "call"
    /\ result = 0
    /\ input = basket
    /\ prevBasket = <<>>
    /\ lastRule = NoRule
    /\ fired = 0
    /\ turnM = 0
    /\ run = 1
    /\ firstBasket = <<>>
    /\ catalog = Catalog
    /\ owner = <<>>
    /\ letters = {}

CallApplyDiscount ==
    /\ pc = "call"
    /\ \E r \in RulePool :
          /\ basket' = apply_discount(r, basket)
          /\ lastRule' = r
    /\ prevBasket' = basket
    /\ UNCHANGED <<skus, pos, rules, sorted, ri, pc, result, input, fired, turnM,
                   run, firstBasket, catalog, owner,
                   letters>>

NextCall == CallApplyDiscount

CallSpec == CallInit /\ [][NextCall]_vars

-----------------------------------------------------------------------------
(* checkout(skus) *)

CheckoutInit ==
    /\ skus \in SkuStrings
    /\ pos = 1
    /\ basket = <<>>
    /\ rules = <<>>
    /\ sorted = <<>>
    /\ ri = 0
    /\ pc = "build"
    /\ result = 0
    /\ input = <<>>
    /\ prevBasket = <<>>
    /\ lastRule = NoRule
    /\ fired = 0
    /\ turnM = 0
    /\ run = 1
    /\ firstBasket = <<>>
    /\ catalog = Catalog
    /\ owner = <<>>
    /\ letters = {}

\* for sku in skus: the character is a key of main_dict
AddProduct ==
    /\ pc = "build"
    /\ pos <= Len(skus)
    /\ skus[pos] \in DOMAIN main_dict
    /\ basket' = add_product(basket, CatalogItem(skus[pos]))
    /\ pos' = pos + 1
    /\ UNCHANGED <<skus, rules, sorted, ri, pc, result, input, prevBasket,
                   lastRule, fired, turnM, run, firstBasket, catalog, owner,
                   letters>>

\* Mutant: an unknown character is skipped instead of ending the call
RejectSkuSkips ==
    /\ pc = "build"
    /\ pos <= Len(skus)
    /\ skus[pos] \notin DOMAIN main_dict
    /\ pos' = pos + 1
    /\ UNCHANGED <<skus, basket, rules, sorted, ri, pc, result, input, prevBasket,
                   lastRule, fired, turnM, run, firstBasket, catalog, owner,
                   letters>>

\* for sku in skus: if sku not in main_dict: return -1
RejectSku ==
    /\ pc = "build"
    /\ pos <= Len(skus)
    /\ skus[pos] \notin DOMAIN main_dict
    /\ result' = -1
    /\ pc' = "returned"
    /\ UNCHANGED <<skus, pos, basket, rules, sorted, ri, input, prevBasket,
                   lastRule, fired, turnM, run, firstBasket, catalog, owner,
                   letters>>

\* CheckoutProcess(basket, OptimisedAnalysis(), discount_strategies).run_analysis()
RunAnalysis ==
    /\ pc = "build"
    /\ pos > Len(skus)
    /\ rules' = discount_strategies
    /\ input' = basket
    /\ pc' = "sort"
    /\ UNCHANGED <<skus, pos, basket, sorted, ri, result, prevBasket, lastRule,
                   fired, turnM, run, firstBasket, catalog, owner,
                   letters>>

\* return int(round(checkoutObject.total_price(), 0))
ReturnTotal ==
    /\ pc = "done"
    /\ result' = RoundHalfEven(total_price(basket))
    /\ pc' = "returned"
    /\ UNCHANGED <<skus, pos, basket, rules, sorted, ri, input, prevBasket,
                   lastRule, fired, turnM, run, firstBasket, catalog, owner,
                   letters>>

NextCheckout ==
    \/ AddProduct \/ RejectSku \/ RunAnalysis
    \/ SortRules \/ ApplyDiscount \/ NextRule \/ ReturnBasket
    \/ ReturnTotal

CheckoutSpec == CheckoutInit /\ [][NextCheckout]_vars

-----------------------------------------------------------------------------
(* The engine as a function of the order in which the rules are exhausted *)

\* while rule.is_applicable(basket): rule.apply_discount(basket)
RECURSIVE ExhaustRule(_, _)
ExhaustRule(r, b) ==
    IF is_applicable(r, b) THEN ExhaustRule(r, apply_discount(r, b)) ELSE b

\* apply_discounts on the rules rs taken in the order ord (positions in rs)
RECURSIVE ExhaustInOrder(_, _, _)
ExhaustInOrder(rs, ord, b) ==
    IF ord = <<>> THEN b
    ELSE ExhaustInOrder(rs, Tail(ord), ExhaustRule(rs[ord[1]], b))

-----------------------------------------------------------------------------
(* Claims *)

\* C1: an entry that is discounted is never changed again by any rule
\* application: its flag stays true and its discounted_price stays as it is, so
\* the flag goes false -> true at most once and no entry is claimed twice.
C1_DiscountedEntryNeverTouched ==
    [][\A i \in 1..Len(basket) :
          basket[i].discounted => (i <= Len(basket') /\ basket'[i] = basket[i])]_vars

\* C1 witness: a rule was applied to a basket that already held a discounted
\* entry of the rule's trigger SKU or free SKU, and it changed the basket.
C1_Witness ==
    /\ lastRule # NoRule
    /\ basket # prevBasket
    /\ \E i \in 1..Len(prevBasket) :
          /\ prevBasket[i].discounted
          /\ \/ Matches(lastRule, prevBasket[i])
             \/ prevBasket[i].sku = lastRule.discounted_item.sku

\* The steps the run has left at most: the rules still to try, plus one
\* application per non-discounted entry
Variant ==
    (CASE pc = "sort" -> Len(rules) + 2
       [] pc = "loop" -> Len(rules) + 2 - ri
       [] OTHER -> 0)
    + Cardinality({i \in 1..Len(basket) : ~basket[i].discounted})

\* The guard of one of the engine's steps holds
CanStep ==
    \/ pc = "sort"
    \/ pc = "loop" /\ ri <= Len(sorted) /\ is_applicable(CurrentRule, basket)
    \/ pc = "loop" /\ ri <= Len(sorted) /\ ~is_applicable(CurrentRule, basket)
    \/ pc = "loop" /\ ri > Len(sorted)

\* C2: with every trigger_quantity >= 1 the run terminates: each apply_discount
\* on an applicable rule strictly reduces the number of non-discounted entries
\* matching the rule, every step of the run strictly decreases a natural-number
\* variant, and a run that has not reached its end can always take a step.
C2_Terminates ==
    /\ [](lastRule # NoRule =>
            trigger_count(lastRule, basket) < trigger_count(lastRule, prevBasket))
    /\ [](Variant >= 0)
    /\ [](pc = "done" \/ CanStep)
    /\ [][Variant' < Variant]_vars

\* C2 witness: a run that ended after a free-item rule appended an entry.
C2_Witness ==
    /\ pc = "done"
    /\ lastRule.kind = "free"
    /\ Len(basket) > Len(input)

SortedIsStableDescending ==
    /\ Len(sorted) = Len(rules)
    /\ Range(sorted) = 1..Len(rules)
    /\ \A i, j \in 1..Len(sorted) :
          i < j =>
             \/ RatLess(rules[sorted[j]].magnitude, rules[sorted[i]].magnitude)
             \/ /\ rules[sorted[j]].magnitude = rules[sorted[i]].magnitude
                /\ sorted[i] < sorted[j]

C6_TriedInStableDescendingOrder ==
    /\ [](pc = "sort" => lastRule = NoRule)
    /\ [](pc \in {"loop", "done"} => SortedIsStableDescending)
    /\ [][pc = "loop" =>
            /\ sorted' = sorted
            /\ ri' >= ri
            /\ (basket' # basket => lastRule' = rules[sorted[ri]])]_vars

\* C6 witness: two different rules of equal magnitude, both applicable to the
\* input; the second of the caller's list is being applied after the first.
C6_Witness ==
    /\ pc = "loop"
    /\ Len(rules) = 2
    /\ rules[1] # rules[2]
    /\ rules[1].magnitude = rules[2].magnitude
    /\ is_applicable(rules[1], input)
    /\ ri = 2
    /\ fired >= 1

\* C7: the total of the engine's run is no greater than the total of exhausting
\* the same rules on the same basket in any other order.
C7_GreedyOrderIsBest ==
    pc = "done" =>
        \A ord \in Permutations(1..Len(rules)) :
            RatLeq(total_price(basket),
                   total_price(ExhaustInOrder(rules, ord, input)))

\* C8: every rule whose turn is over is not applicable, in every later state
\* and at the end of the run.
C8_ExhaustedStaysExhausted ==
    pc \in {"loop", "done"} =>
        \A k \in 1..Len(sorted) :
            (k < ri \/ pc = "done") => ~is_applicable(rules[sorted[k]], basket)

\* C8 witness: the run ended, its last application was a free-item rule that
\* appended an entry, and an earlier rule of the sorted list has the appended
\* entry's SKU as its trigger.
C8_Witness ==
    /\ pc = "done"
    /\ lastRule.kind = "free"
    /\ Len(basket) = Len(prevBasket) + 1
    /\ \E k, l \in 1..Len(sorted) :
          /\ k < l
          /\ rules[sorted[l]] = lastRule
          /\ rules[sorted[k]] # lastRule
          /\ Matches(rules[sorted[k]], basket[Len(basket)])

\* C9: the basket never shrinks, the input entries keep position, sku and
\* price, and an application adds an entry (one, of the free SKU, at the end)
\* only if it is a free-item rule that found no non-discounted entry of its free
\* SKU.
C9_NoEntryRemoved ==
    /\ Len(basket) >= Len(input)
    /\ \A i \in 1..Len(input) :
          /\ basket[i].sku = input[i].sku
          /\ basket[i].price = input[i].price
    /\ lastRule # NoRule =>
          /\ Len(basket) \in {Len(prevBasket), Len(prevBasket) + 1}
          /\ \A i \in 1..Len(prevBasket) :
                /\ basket[i].sku = prevBasket[i].sku
                /\ basket[i].price = prevBasket[i].price
          /\ Len(basket) = Len(prevBasket) + 1 =>
                /\ lastRule.kind = "free"
                /\ basket[Len(basket)].sku = lastRule.discounted_item.sku
                /\ \A i \in 1..Len(prevBasket) :
                      basket[i].sku = lastRule.discounted_item.sku
                          => basket[i].discounted

\* C9 witness: a free-item application appended an entry to a basket that
\* already held an entry of the free SKU.
C9_Witness ==
    /\ lastRule.kind = "free"
    /\ Len(basket) = Len(prevBasket) + 1
    /\ \E i \in 1..Len(prevBasket) : prevBasket[i].sku = lastRule.discounted_item.sku

\* C10: during a rule's turn the number of applications times its
\* trigger_quantity never exceeds the number m of non-discounted matching
\* entries at the start of the turn (applications <= floor(m / trigger_quantity)).
C10_TurnBound ==
    (pc = "loop" /\ ri <= Len(sorted)) =>
        fired * CurrentRule.trigger_quantity <= turnM

\* C10 witness: a free-item rule whose trigger SKU is its free SKU has been
\* applied twice in its turn.
C10_Witness ==
    /\ pc = "loop"
    /\ ri <= Len(sorted)
    /\ CurrentRule.kind = "free"
    /\ CurrentRule.item.sku = CurrentRule.discounted_item.sku
    /\ fired >= 2

\* C3: an input with a character that is not a key of the catalog never reaches
\* the engine and returns -1 with no entry discounted; an input of catalog SKUs
\* only never returns -1.
HasUnknownSku == \E i \in 1..Len(skus) : skus[i] \notin DOMAIN main_dict

C3_UnknownSkuRejected ==
    /\ HasUnknownSku =>
          /\ pc \in {"build", "returned"}
          /\ sorted = <<>>
          /\ lastRule = NoRule
          /\ \A i \in 1..Len(basket) :
                ~basket[i].discounted /\ basket[i].discounted_price = <<basket[i].price, 1>>
          /\ pc = "returned" => result = -1
    /\ (~HasUnknownSku /\ pc = "returned") => result # -1

\* C3 witness: -1 was returned for an input whose unknown character comes after
\* two catalog SKUs that would have triggered a rule.
C3_Witness ==
    /\ pc = "returned"
    /\ result = -1
    /\ Len(basket) = 2
    /\ is_applicable(discount_strategies[3], basket)

\* C5: an apply_discount call on a basket for which the rule's is_applicable is
\* false leaves the basket as it was.
C5_InapplicableIsNoOp ==
    (lastRule # NoRule /\ ~is_applicable(lastRule, prevBasket)) => basket = prevBasket

\* C5 witness: a free-item rule was called on a basket that holds too few
\* triggers, at least one non-discounted trigger and a non-discounted entry of
\* the free SKU.
C5_Witness ==
    /\ lastRule.kind = "free"
    /\ ~is_applicable(lastRule, prevBasket)
    /\ trigger_count(lastRule, prevBasket) >= 1
    /\ \E i \in 1..Len(prevBasket) :
          prevBasket[i].sku = lastRule.discounted_item.sku /\ ~prevBasket[i].discounted

-----------------------------------------------------------------------------
(* Claims on checkout without discounts and on single rules *)

\* The sum of the unit prices of a string of catalog SKUs
RECURSIVE SumUnitPrices(_)
SumUnitPrices(s) ==
    IF s = <<>> THEN 0 ELSE main_dict[Head(s)] + SumUnitPrices(Tail(s))

\* The number of entries of basket b that rule k of the shipped list could claim
ShippedCount(k, b) ==
    Cardinality({i \in 1..Len(b) :
                    /\ ~b[i].discounted
                    /\ b[i].sku \in discount_strategies[k].letters_affected})

\* No shipped rule finds its trigger quantity among the SKUs of the input
NoRuleReached ==
    /\ ~HasUnknownSku
    /\ \A k \in 1..Len(discount_strategies) :
          ShippedCount(k, input) < discount_strategies[k].trigger_quantity

\* C11: when no rule's trigger quantity is reached by the input, checkout applies
\* no rule, leaves every entry non-discounted at its unit price and returns the
\* sum of the unit prices: 0 for the empty string, the unit price for a string
\* of one catalog character.
C11_NoRuleReachedSumsUnitPrices ==
    /\ (pc \in {"loop", "done", "returned"} /\ NoRuleReached) =>
          /\ lastRule = NoRule
          /\ Len(basket) = Len(skus)
          /\ \A i \in 1..Len(basket) :
                /\ basket[i].sku = skus[i]
                /\ ~basket[i].discounted
                /\ basket[i].discounted_price = <<main_dict[skus[i]], 1>>
          /\ pc = "returned" => result = SumUnitPrices(skus)
    /\ (pc = "returned" /\ skus = <<>>) => result = 0
    /\ (pc = "returned" /\ Len(skus) = 1 /\ skus[1] \in DOMAIN main_dict) =>
          result = main_dict[skus[1]]

\* C11 witness: checkout returned the unit price 70 for the one-character
\* input "K", for which a rule (2 K for 120) exists but is not reached.
C11_Witness ==
    /\ pc = "returned"
    /\ skus = <<"K">>
    /\ result = 70
    /\ \E k \in 1..Len(discount_strategies) :
          "K" \in discount_strategies[k].letters_affected

\* The input is a run of n characters V
RunOfV == \A i \in 1..Len(skus) : skus[i] = "V"

\* The position in `sorted` of rule k of the rule list
SortedPos(k) == CHOOSE j \in 1..Len(sorted) : sorted[j] = k

\* C12: for n units of V, with the shipped rules 2 V for 90 and 3 V for 130,
\* the 3-for-130 rule (magnitude 20) is tried before the 2-for-90 rule
\* (magnitude 10) and checkout returns
\* 130 * (n div 3) + 90 * ((n mod 3) div 2) + 50 * ((n mod 3) mod 2).
C12_UnitsOfV ==
    RunOfV =>
        /\ pc \in {"loop", "done", "returned"} => SortedPos(15) < SortedPos(14)
        /\ pc = "returned" =>
              LET n == Len(skus)
              IN  result = 130 * (n \div 3) + 90 * ((n % 3) \div 2)
                             + 50 * ((n % 3) % 2)

\* C12 witness: checkout returned 220 for five V, where the 3-for-130 rule
\* fired once and the 2-for-90 rule claimed the two entries left.
C12_Witness ==
    /\ pc = "returned"
    /\ RunOfV
    /\ Len(skus) = 5
    /\ result = 220
    /\ \A i \in 1..5 : basket[i].discounted

-----------------------------------------------------------------------------
(* Claims on one application of a rule *)

\* Entry i of b is non-discounted and of SKU s
Open(b, s, i) == b[i].sku = s /\ ~b[i].discounted

\* Entry i of b is one of the first q non-discounted entries of SKU s
FirstOpen(b, s, q, i) ==
    /\ Open(b, s, i)
    /\ Cardinality({j \in 1..i : Open(b, s, j)}) <= q

\* The latest call applied a free-item rule whose trigger SKU differs from its
\* free SKU to a basket with the triggers and a non-discounted free-SKU entry
FreeOnExistingEntry ==
    /\ lastRule.kind = "free"
    /\ lastRule.item.sku # lastRule.discounted_item.sku
    /\ Cardinality({i \in 1..Len(prevBasket) : Open(prevBasket, lastRule.item.sku, i)})
          >= lastRule.trigger_quantity
    /\ \E i \in 1..Len(prevBasket) : Open(prevBasket, lastRule.discounted_item.sku, i)

\* C13: a FreeItemDiscount(trigger, q, free) with trigger # free, applied to a
\* basket with at least q non-discounted trigger entries and a non-discounted
\* free-SKU entry, flags exactly the first q non-discounted trigger entries
\* without changing their price, sets the first non-discounted free-SKU entry
\* to price 0 and flags it, changes no other entry and appends none; the basket
\* E, E, B totals 80 under 2 E give one B.
C13_FreeItemOnExistingEntry ==
    /\ FreeOnExistingEntry =>
          /\ Len(basket) = Len(prevBasket)
          /\ \A i \in 1..Len(prevBasket) :
                basket[i] =
                    IF FirstOpen(prevBasket, lastRule.item.sku,
                                 lastRule.trigger_quantity, i)
                    THEN [prevBasket[i] EXCEPT !.discounted = TRUE]
                    ELSE IF FirstOpen(prevBasket, lastRule.discounted_item.sku, 1, i)
                    THEN [prevBasket[i] EXCEPT !.discounted_price = <<0, 1>>,
                                               !.discounted = TRUE]
                    ELSE prevBasket[i]
    /\ total_price(ExhaustRule(
            FreeItemDiscount(CatalogItem("E"), 2, CatalogItem("B")),
            <<CatalogItem("E"), CatalogItem("E"), CatalogItem("B")>>)) = <<80, 1>>

\* C13 witness: such a rule was applied to a basket with more non-discounted
\* triggers than its trigger quantity.
C13_Witness ==
    /\ FreeOnExistingEntry
    /\ Cardinality({i \in 1..Len(prevBasket) : Open(prevBasket, lastRule.item.sku, i)})
          > lastRule.trigger_quantity

\* The number of non-discounted entries of b whose SKU is the rule's item SKU
\* (bulk, free-item) or the SKU of one of the rule's items (combo)
OpenMatching(r, b) ==
    Cardinality({i \in 1..Len(b) :
        /\ ~b[i].discounted
        /\ IF r.kind = "combo"
           THEN \E k \in 1..Len(r.items) : b[i].sku = r.items[k].sku
           ELSE b[i].sku = r.item.sku})

\* C14: is_applicable(basket) is true exactly when the number of non-discounted
\* matching entries is at least trigger_quantity, for every rule of the list
\* and every basket the engine reaches; the engine applies the current rule exactly when
\* that count is reached, and the step on which is_applicable answered false
\* changes neither the basket nor the rules.
C14_IsApplicableCountsOpenEntries ==
    /\ [](\A k \in 1..Len(rules) :
            is_applicable(rules[k], basket)
                <=> OpenMatching(rules[k], basket) >= rules[k].trigger_quantity)
    /\ [][(pc = "loop" /\ ri <= Len(sorted)) =>
            /\ rules' = rules
            /\ sorted' = sorted
            /\ IF OpenMatching(CurrentRule, basket) >= CurrentRule.trigger_quantity
               THEN ri' = ri /\ basket' = apply_discount(CurrentRule, basket)
               ELSE ri' = ri + 1 /\ basket' = basket]_vars

\* C14 witness: is_applicable answered false for a rule because entries of its
\* SKU are already discounted, although the basket holds trigger_quantity
\* entries of that SKU.
C14_Witness ==
    /\ pc = "loop"
    /\ ri <= Len(sorted)
    /\ ~is_applicable(CurrentRule, basket)
    /\ Cardinality({i \in 1..Len(basket) : Matches(CurrentRule, basket[i])})
          >= CurrentRule.trigger_quantity
    /\ \E i \in 1..Len(basket) : Open(basket, CurrentRule.item.sku, i)

-----------------------------------------------------------------------------
(* The engine run with one bulk rule alone *)

\* The bulk rules run alone: trigger quantities up to MaxTrig + 1, so that the
\* shipped 3 A for 130 is among them
BulkRules ==
    UNION {{BulkDiscount(it, q, p) : p \in BulkPrices(it, q)} :
              it \in EngineItems, q \in 1..(MaxTrig + 1)}

\* The baskets of these runs: the engine's baskets and the runs of one SKU
SoloBaskets ==
    Baskets \cup UNION {[1..n -> {it}] : n \in 0..MaxRepeat, it \in EngineItems}

SoloInit ==
    /\ skus = <<>>
    /\ pos = 0
    /\ basket \in SoloBaskets
    /\ rules \in {<<r>> : r \in BulkRules}
    /\ sorted = <<>>
    /\ ri = 0
    /\ pc = "sort"
    /\ result = 0
    /\ input = basket
    /\ prevBasket = <<>>
    /\ lastRule = NoRule
    /\ fired = 0
    /\ turnM = 0
    /\ run = 1
    /\ firstBasket = <<>>
    /\ catalog = Catalog
    /\ owner = <<>>
    /\ letters = {}

SoloSpec == SoloInit /\ [][Next]_vars

\* C15: one application of BulkDiscount(item, q, p) claims exactly the first q
\* non-discounted entries of item.sku in basket order, gives each the price
\* p / q and the flag, and changes no other entry; run alone on n units of
\* that SKU the rule fires exactly n div q times, leaves n mod q entries
\* non-discounted at the unit price, and the total is
\* (n div q) * p + (n mod q) * unit price.
C15_BulkClaimsFirstEntries ==
    LET r == rules[1]
        q == r.trigger_quantity
        n == Len(input)
    IN  /\ lastRule # NoRule =>
              /\ lastRule = r
              /\ Len(basket) = Len(prevBasket)
              /\ \A i \in 1..Len(prevBasket) :
                    IF FirstOpen(prevBasket, r.item.sku, q, i)
                    THEN /\ basket[i].discounted
                         /\ basket[i].sku = prevBasket[i].sku
                         /\ basket[i].price = prevBasket[i].price
                         /\ basket[i].discounted_price[1] * q
                               = r.bulk_price * basket[i].discounted_price[2]
                    ELSE basket[i] = prevBasket[i]
        /\ (\A i \in 1..n : input[i].sku = r.item.sku) =>
              /\ (pc = "loop" /\ ri = 1) => fired <= n \div q
              /\ (pc = "loop" /\ ri = 1 /\ OpenMatching(r, basket) < q) =>
                    fired = n \div q
              /\ pc = "done" =>
                    /\ Cardinality({i \in 1..Len(basket) : basket[i].discounted})
                          = q * (n \div q)
                    /\ Cardinality({i \in 1..Len(basket) :
                                       /\ ~basket[i].discounted
                                       /\ basket[i].discounted_price
                                             = <<r.item.price, 1>>}) = n % q
                    /\ total_price(basket)
                          = <<(n \div q) * r.bulk_price + (n % q) * r.item.price, 1>>

\* C15 witness: 3 A for 130 run alone on seven A fired twice and left one A at
\* its unit price.
C15_Witness ==
    /\ pc = "loop"
    /\ ri = 1
    /\ rules = <<BulkDiscount(CatalogItem("A"), 3, 130)>>
    /\ Len(input) = 7
    /\ fired = 2
    /\ ~is_applicable(CurrentRule, basket)
    /\ ~basket[7].discounted

\* Entry i of b is non-discounted and its SKU is one of the combo rule's
ComboOpen(r, b, i) ==
    /\ ~b[i].discounted
    /\ \E k \in 1..Len(r.items) : b[i].sku = r.items[k].sku

\* The positions the latest call changed
Claimed == {i \in 1..Len(prevBasket) : basket[i] # prevBasket[i]}

\* The latest call applied a combo rule to a basket that reaches its quantity
ComboApplied ==
    /\ lastRule.kind = "combo"
    /\ Cardinality({i \in 1..Len(prevBasket) : ComboOpen(lastRule, prevBasket, i)})
          >= lastRule.trigger_quantity

\* C16: one application of a ComboDiscount claims exactly q non-discounted
\* entries whose SKU is in its set, by descending original price: no unclaimed
\* eligible entry has a higher price than a claimed one, and of two eligible
\* entries of equal price the earlier in the basket is taken first; each
\* claimed entry gets the price comboPrice / q and the flag, and no other
\* entry changes.
C16_ComboClaimsDearestEntries ==
    ComboApplied =>
        /\ Len(basket) = Len(prevBasket)
        /\ Cardinality(Claimed) = lastRule.trigger_quantity
        /\ \A i \in Claimed :
              /\ ComboOpen(lastRule, prevBasket, i)
              /\ basket[i].discounted
              /\ basket[i].sku = prevBasket[i].sku
              /\ basket[i].price = prevBasket[i].price
              /\ basket[i].discounted_price[1] * lastRule.trigger_quantity
                    = lastRule.combo_price * basket[i].discounted_price[2]
              /\ \A j \in 1..Len(prevBasket) \ Claimed :
                    ComboOpen(lastRule, prevBasket, j) =>
                        \/ prevBasket[j].price < prevBasket[i].price
                        \/ prevBasket[j].price = prevBasket[i].price /\ i < j

\* C16 witness: a combo rule was applied to a basket in which an eligible
\* entry of lower price comes before the claimed entry and an eligible entry
\* of the same price comes after it.
C16_Witness ==
    /\ ComboApplied
    /\ \E i \in Claimed :
          /\ \E j \in 1..(i - 1) :
                /\ ComboOpen(lastRule, prevBasket, j)
                /\ prevBasket[j].price < prevBasket[i].price
                /\ j \notin Claimed
          /\ \E j \in (i + 1)..Len(prevBasket) :
                /\ ComboOpen(lastRule, prevBasket, j)
                /\ prevBasket[j].price = prevBasket[i].price
                /\ j \notin Claimed

\* The latest call applied a free-item rule to a basket that reaches its quantity
FreeApplied ==
    /\ lastRule.kind = "free"
    /\ Cardinality({i \in 1..Len(prevBasket) : Open(prevBasket, lastRule.item.sku, i)})
          >= lastRule.trigger_quantity

\* The positions whose entry the latest call flagged or appended
NewlyFlagged ==
    {i \in 1..Len(basket) :
        basket[i].discounted /\ (i > Len(prevBasket) \/ ~prevBasket[i].discounted)}

\* C17: in one application of a FreeItemDiscount the triggers are claimed
\* before the free unit is looked up, so the entry made free is never one of
\* the q entries claimed as triggers, also when the trigger SKU is the free
\* SKU: the application flags the first q triggers, which keep their price,
\* plus one other entry of the free SKU, which is priced 0.
C17_FreeEntryIsNotATrigger ==
    FreeApplied =>
        LET q == lastRule.trigger_quantity
            T == {i \in 1..Len(prevBasket) :
                    FirstOpen(prevBasket, lastRule.item.sku, q, i)}
        IN  /\ T \subseteq NewlyFlagged
            /\ Cardinality(NewlyFlagged) = q + 1
            /\ \A i \in T :
                  basket[i].discounted_price = prevBasket[i].discounted_price
            /\ \A f \in NewlyFlagged \ T :
                  /\ basket[f].sku = lastRule.discounted_item.sku
                  /\ basket[f].discounted_price = <<0, 1>>

\* C17 witness: a rule whose free SKU is its trigger SKU was applied to a
\* basket with more than q non-discounted entries of that SKU, so that the
\* free unit is an entry of the basket that comes after the triggers.
C17_Witness ==
    /\ FreeApplied
    /\ lastRule.item.sku = lastRule.discounted_item.sku
    /\ Len(basket) = Len(prevBasket)
    /\ \E f \in NewlyFlagged :
          /\ basket[f].discounted_price = <<0, 1>>
          /\ \A i \in NewlyFlagged \ {f} : i < f

-----------------------------------------------------------------------------
(* Claims on the appended free unit *)

\* The latest application was of a free-item rule that, once its q triggers
\* were claimed, found no non-discounted entry of its free SKU
FreeOnNoEntry ==
    /\ FreeApplied
    /\ \A i \in 1..Len(prevBasket) :
          Open(prevBasket, lastRule.discounted_item.sku, i) =>
              FirstOpen(prevBasket, lastRule.item.sku, lastRule.trigger_quantity, i)

\* The free unit a rule appends
Phantom(s) ==
    [sku |-> s, price |-> main_dict[s], discounted_price |-> <<0, 1>>,
     discounted |-> TRUE]

\* C18: an applicable FreeItemDiscount that finds no non-discounted entry of
\* its free SKU after claiming its triggers appends exactly one entry of the
\* free SKU with price 0 and discounted = true and leaves the basket total
\* unchanged; every appended entry stays as it was appended through all later
\* rule applications; checkout("FF") is 20 with a basket of three entries.
C18_AppendedFreeUnit ==
    /\ FreeOnNoEntry =>
          /\ Len(basket) = Len(prevBasket) + 1
          /\ basket[Len(basket)] = Phantom(lastRule.discounted_item.sku)
          /\ \A i \in 1..Len(prevBasket) :
                basket[i].discounted_price = prevBasket[i].discounted_price
          /\ total_price(basket) = total_price(prevBasket)
    /\ (pc \in {"sort", "loop", "done"} \/ (pc = "returned" /\ ~HasUnknownSku)) =>
          \A i \in (Len(input) + 1)..Len(basket) : basket[i] = Phantom(basket[i].sku)
    /\ (pc = "returned" /\ skus = <<"F", "F">>) =>
          result = 20 /\ Len(basket) = 3

\* C18 witness: for the input EEEE the rule 2 E give one B appended two B at
\* price 0, and the later rule 2 B for 45 is at its turn and finds nothing to
\* claim.
C18_Witness ==
    /\ pc = "loop"
    /\ ri <= Len(sorted)
    /\ CurrentRule = BulkDiscount(CatalogItem("B"), 2, 45)
    /\ Len(input) = 4
    /\ Len(basket) = 6
    /\ basket[5] = Phantom("B")
    /\ basket[6] = Phantom("B")
    /\ ~is_applicable(CurrentRule, basket)

-----------------------------------------------------------------------------
(* Rules built with any trigger quantity, then run by the engine *)

\* The constructor calls of the model: trigger quantities from -1 upwards
ConfigPool ==
    LET Quantities == {0 - 1, 0} \cup 1..MaxTrig
    IN  UNION {{BulkDiscount(it, q, p) : p \in BulkPrices(it, q)} :
                  it \in EngineItems, q \in Quantities}
        \cup {FreeItemDiscount(it, q, d) :
                  it \in EngineItems, q \in Quantities, d \in EngineItems}
        \cup {ComboDiscount(its, p, q) :
                  its \in ComboItemLists, p \in ComboPrices, q \in Quantities}

\* DiscountStrategy.__init__ tests nothing; the one fault a constructor can
\* end in is the division combo_price / trigger_quantity of
\* ComboDiscount.calculate_magnitude when trigger_quantity is 0
ConstructionFaults(c) == c.kind = "combo" /\ c.trigger_quantity = 0

ConfigInit ==
    /\ skus = <<>>
    /\ pos = 0
    /\ basket \in Baskets
    /\ rules = <<>>
    /\ sorted = <<>>
    /\ ri = 0
    /\ pc = "construct"
    /\ result = 0
    /\ input = basket
    /\ prevBasket = <<>>
    /\ lastRule = NoRule
    /\ fired = 0
    /\ turnM = 0
    /\ run = 1
    /\ firstBasket = <<>>
    /\ catalog = Catalog
    /\ owner = <<>>
    /\ letters = {}

\* The caller builds one rule and hands the list to run
ConstructRule ==
    /\ pc = "construct"
    /\ \E c \in ConfigPool :
          IF ConstructionFaults(c)
          THEN pc' = "fault" /\ rules' = rules
          ELSE pc' = "sort" /\ rules' = <<c>>
    /\ UNCHANGED <<skus, pos, basket, sorted, ri, result, input, prevBasket,
                   lastRule, fired, turnM, run, firstBasket, catalog, owner,
                   letters>>

\* One pass of the while loop; the model follows a turn for MaxBasket + 1
\* applications, one more than a rule with a positive quantity can make
ApplyDiscountInTurn ==
    /\ fired <= MaxBasket
    /\ ApplyDiscount

NextConfig ==
    ConstructRule \/ SortRules \/ ApplyDiscountInTurn \/ NextRule \/ ReturnBasket

ConfigSpec == ConfigInit /\ [][NextConfig]_vars

\* C19: a rule with a zero or negative trigger quantity is rejected with a
\* fault when it is constructed, so the engine is never run with such a rule:
\* every rule of the list run has a trigger quantity of at least 1, and no
\* rule is applied more often in its turn than the basket has entries.
C19_BadQuantityRejected ==
    /\ \A k \in 1..Len(rules) : rules[k].trigger_quantity >= 1
    /\ fired <= Len(input)

-----------------------------------------------------------------------------
(* checkout as a function of its string *)

\* The shipped rules in the order run tries them
ShippedOrder == SortedStrategies(discount_strategies)

\* checkout(skus): -1 for a string with a character outside the catalog, else
\* the rounded total of the basket the engine returns
checkout(s) ==
    IF \E i \in 1..Len(s) : s[i] \notin DOMAIN main_dict THEN 0 - 1
    ELSE RoundHalfEven(total_price(
             ExhaustInOrder(discount_strategies, ShippedOrder,
                            [i \in 1..Len(s) |-> CatalogItem(s[i])])))

\* The strings with the characters of s, each as often as in s, in any order
Rearrangements(s) ==
    {t \in [1..Len(s) -> Range(s)] :
        \A c \in Range(s) :
            Cardinality({i \in 1..Len(s) : t[i] = c})
                = Cardinality({i \in 1..Len(s) : s[i] = c})}

\* C20: the value checkout returns depends only on how often each character
\* occurs in the string, not on the order: what a call returns for skus is
\* what checkout gives for every rearrangement of skus.
C20_OrderOfSkusIsIrrelevant ==
    pc = "returned" => \A t \in Rearrangements(skus) : result = checkout(t)

\* C20 witness: checkout returned 62 for a string of one S and three X with
\* the S last, the total of the three dearest entries in the combo plus one X.
C20_Witness ==
    /\ pc = "returned"
    /\ skus = <<"X", "X", "X", "S">>
    /\ result = 62
    /\ Cardinality(Rearrangements(skus)) = 4

-----------------------------------------------------------------------------
(* checkout with its objects: which entries are copies, which are shared *)

HeapInit ==
    /\ skus \in SkuStrings
    /\ pos = 1
    /\ basket = <<>>
    /\ rules = <<>>
    /\ sorted = <<>>
    /\ ri = 0
    /\ pc = "build"
    /\ result = 0
    /\ input = <<>>
    /\ prevBasket = <<>>
    /\ lastRule = NoRule
    /\ fired = 0
    /\ turnM = 0
    /\ run = 1
    /\ firstBasket = <<>>
    /\ catalog = Catalog
    /\ owner = <<>>
    /\ letters = {}

\* Mutant: add_product appends the product itself, not a deep copy of it
HeapAddProductNoCopy ==
    /\ pc = "build"
    /\ pos <= Len(skus)
    /\ skus[pos] \in DOMAIN main_dict
    /\ basket' = add_product(basket, catalog[skus[pos]])
    /\ owner' = Append(owner, skus[pos])
    /\ pos' = pos + 1
    /\ UNCHANGED <<skus, rules, sorted, ri, pc, result, input, prevBasket,
                   lastRule, fired, turnM, run, firstBasket, catalog, letters>>

\* basket.add_product(main_dict[sku]): the appended entry is a deep copy of the
\* main_dict object as it is now, an object of its own
HeapAddProduct ==
    /\ pc = "build"
    /\ pos <= Len(skus)
    /\ skus[pos] \in DOMAIN main_dict
    /\ basket' = add_product(basket, catalog[skus[pos]])
    /\ owner' = Append(owner, "")
    /\ pos' = pos + 1
    /\ UNCHANGED <<skus, rules, sorted, ri, pc, result, input, prevBasket,
                   lastRule, fired, turnM, run, firstBasket, catalog, letters>>

\* A rule holds references to main_dict objects: what it reads through them
\* is what the objects hold now
HeapRule(r) ==
    [r EXCEPT !.item = IF r.item.sku \in DOMAIN catalog
                       THEN catalog[r.item.sku] ELSE r.item,
              !.discounted_item = IF r.discounted_item.sku \in DOMAIN catalog
                                  THEN catalog[r.discounted_item.sku]
                                  ELSE r.discounted_item]

\* apply_discount writes to the objects the list refers to: to a main_dict
\* object where the entry is that object, and every entry that is a main_dict
\* object shows what the object holds afterwards; the copy a free-item rule
\* appends is an object of its own
HeapApplyDiscount ==
    /\ pc = "loop"
    /\ ri <= Len(sorted)
    /\ is_applicable(CurrentRule, basket)
    /\ LET after == apply_discount(HeapRule(CurrentRule), basket)
           Written(s) == {i \in 1..Len(basket) : owner[i] = s /\ after[i] # basket[i]}
           objects == [s \in DOMAIN catalog |->
                          IF Written(s) = {} THEN catalog[s]
                          ELSE after[CHOOSE i \in Written(s) : TRUE]]
       IN  /\ catalog' = objects
           /\ basket' = [i \in 1..Len(after) |->
                            IF i <= Len(owner) /\ owner[i] # ""
                            THEN objects[owner[i]] ELSE after[i]]
           /\ owner' = owner \o [i \in 1..(Len(after) - Len(basket)) |-> ""]
    /\ prevBasket' = basket
    /\ lastRule' = CurrentRule
    /\ fired' = fired + 1
    /\ UNCHANGED <<skus, pos, rules, sorted, ri, pc, result, input, turnM,
                   run, firstBasket, letters>>

NextHeap ==
    \/ HeapAddProduct \/ RejectSku \/ RunAnalysis
    \/ SortRules \/ HeapApplyDiscount \/ NextRule \/ ReturnBasket
    \/ ReturnTotal

HeapSpec == HeapInit /\ [][NextHeap]_vars

\* C21: the catalog items are never mutated: while checkout builds the basket
\* and through every rule application, also one that appends a free unit made
\* from a rule's discounted_item, every main_dict Item keeps the sku, price,
\* discounted_price and discounted flag it was constructed with.
C21_CatalogNeverMutated == catalog = Catalog

\* C21 witness: a free-item rule has appended a free unit at price 0 while
\* entries of the basket are claimed, and the run is over.
C21_Witness ==
    /\ pc = "returned"
    /\ Len(basket) > Len(skus)
    /\ basket[Len(basket)].discounted
    /\ basket[Len(basket)].discounted_price = <<0, 1>>
    /\ \E i \in 1..Len(skus) : basket[i].discounted /\ owner[i] = ""

-----------------------------------------------------------------------------
(* Claims on what the engine leaves alone and on prices *)

\* The magnitude of rule r as its configuration gives it, as numerator and
\* denominator: price * q - bulk price; the price of the free item;
\* (sum of the item prices / number of items - combo price / q) * q
ConfiguredMagnitude(r) ==
    CASE r.kind = "bulk" -> <<r.item.price * r.trigger_quantity - r.bulk_price, 1>>
      [] r.kind = "free" -> <<r.discounted_item.price, 1>>
      [] r.kind = "combo" ->
            <<SumPrices(r.items) * r.trigger_quantity - r.combo_price * Len(r.items),
              Len(r.items)>>

\* C22: no engine step (the sort, an is_applicable test, an apply_discount
\* call) changes a rule or the order of the caller's rule list, and in every
\* reachable state each rule's magnitude is the value its configuration
\* gives, whatever the basket holds.
C22_RulesNeverChange ==
    /\ [][rules' = rules]_vars
    /\ [](\A k \in 1..Len(rules) :
            rules[k].magnitude[1] * ConfiguredMagnitude(rules[k])[2]
                = ConfiguredMagnitude(rules[k])[1] * rules[k].magnitude[2])

\* C22 witness: a run is over in which the sort put the second rule of the
\* caller's list first and rules were applied.
C22_Witness ==
    /\ pc = "done"
    /\ Len(rules) = 2
    /\ sorted = <<2, 1>>
    /\ rules[1] # rules[2]
    /\ basket # input

\* C23: in every reachable state of an engine run an entry whose discounted
\* flag is false has a discounted_price equal to its price: a price is only
\* rewritten together with setting the flag.
C23_OpenEntryKeepsItsPrice ==
    \A i \in 1..Len(basket) :
        ~basket[i].discounted => basket[i].discounted_price = <<basket[i].price, 1>>

\* C23 witness: a run is over that repriced one entry and left another entry
\* of the same SKU non-discounted.
C23_Witness ==
    /\ pc = "done"
    /\ \E i, j \in 1..Len(basket) :
          /\ basket[i].sku = basket[j].sku
          /\ basket[i].discounted
          /\ basket[i].discounted_price # <<basket[i].price, 1>>
          /\ ~basket[j].discounted

\* The price one application of a shipped rule gives an entry is not above
\* the price of any item the rule can claim
ShippedRuleLowersPrice(r) ==
    CASE r.kind = "bulk" -> r.bulk_price <= r.trigger_quantity * r.item.price
      [] r.kind = "combo" ->
            \A k \in 1..Len(r.items) :
                r.combo_price <= r.trigger_quantity * r.items[k].price
      [] OTHER -> TRUE

\* C24: under the shipped catalog and rules a discount never raises a price:
\* in every reachable state each entry's discounted_price is at least 0 and at
\* most its price, and for every valid input checkout returns at least 0 and
\* at most the sum of the unit prices of the characters of the input.
C24_DiscountNeverRaisesPrice ==
    /\ \A i \in 1..Len(basket) :
          /\ RatLeq(<<0, 1>>, basket[i].discounted_price)
          /\ RatLeq(basket[i].discounted_price, <<basket[i].price, 1>>)
    /\ \A k \in 1..Len(discount_strategies) :
          ShippedRuleLowersPrice(discount_strategies[k])
    /\ (pc = "returned" /\ ~HasUnknownSku) =>
          /\ 0 <= result
          /\ result <= SumUnitPrices(skus)

\* C24 witness: checkout returned less than the sum of the unit prices for an
\* input of which one entry was repriced to a fraction above 0 and below its
\* price and another entry kept its price.
C24_Witness ==
    /\ pc = "returned"
    /\ result > 0
    /\ result < SumUnitPrices(skus)
    /\ \E i, j \in 1..Len(basket) :
          /\ basket[i].discounted_price[2] > 1
          /\ ~basket[j].discounted

-----------------------------------------------------------------------------
(* Claims on the float total *)

\* The distinct prices of the basket that are not whole numbers
FractionalPrices ==
    {basket[i].discounted_price : i \in {j \in 1..Len(basket) :
                                            basket[j].discounted_price[2] > 1}}

-----------------------------------------------------------------------------
(* The per-SKU engine of analysis.py, with the rules of discounts.py *)

\* The rules of discounts.py: bulk and free-item rules, there is no combo rule
LegacyRulePool == {r \in RulePool : r.kind \in {"bulk", "free"}}

LegacyRuleLists == UNION {[1..n -> LegacyRulePool] : n \in 0..MaxRules}

\* DiscountStrategy.__init__ of discounts.py: self.letter_affected = item.sku
letter_affected(r) == r.item.sku

\* The order of the one-letter SKUs as strings
Alphabet ==
    <<"A", "B", "C", "D", "E", "F", "G", "H", "I", "J", "K", "L", "M",
      "N", "O", "P", "Q", "R", "S", "T", "U", "V", "W", "X", "Y", "Z">>

\* basket.products.sort(key=lambda x: x.sku): a stable sort, the entries of
\* one SKU stay in the order they have
RECURSIVE SortBySkuFrom(_, _)
SortBySkuFrom(b, k) ==
    IF k > Len(Alphabet) THEN <<>>
    ELSE LET Test(e) == e.sku = Alphabet[k]
         IN  SelectSeq(b, Test) \o SortBySkuFrom(b, k + 1)

SortBySku(b) == SortBySkuFrom(b, 1)

\* get_basket_letters: {product.sku for product in basket.products}
get_basket_letters(b) == {b[i].sku : i \in 1..Len(b)}

\* categorise_discount_strategies: the rules sorted by trigger_quantity,
\* descending and stable, each appended to the list of its letter_affected;
\* the lists hold positions in the rule list
categorise_discount_strategies(rs) ==
    LET srt == SortDesc([i \in 1..Len(rs) |-> i],
                        [i \in 1..Len(rs) |-> <<rs[i].trigger_quantity, 1>>])
    IN  [l \in {letter_affected(rs[i]) : i \in 1..Len(rs)} |->
            LET Test(i) == letter_affected(rs[i]) = l
            IN  SelectSeq(srt, Test)]

\* The positions of the entries the loops of discounts.py count and claim:
\* product.sku == self.item.sku and not product.discounted
LegacyTriggers(r, b) ==
    LET Test(i) == b[i].sku = r.item.sku /\ ~b[i].discounted
    IN  SelectSeq([i \in 1..Len(b) |-> i], Test)

\* is_applicable of discounts.py, the same for both rules
legacy_is_applicable(r, b) == Len(LegacyTriggers(r, b)) >= r.trigger_quantity

\* BulkDiscount.apply_discount of discounts.py
LegacyBulkApply(r, b) ==
    IF legacy_is_applicable(r, b)
    THEN Claim(b, Range(Take(LegacyTriggers(r, b), r.trigger_quantity)),
               Rat(r.bulk_price, r.trigger_quantity))
    ELSE b

\* FreeItemDiscount.apply_discount of discounts.py: the triggers are flagged,
\* then the first non-discounted entry of the free SKU is made free, or a free
\* entry is appended when there is none
LegacyFreeApply(r, b) ==
    IF legacy_is_applicable(r, b)
    THEN LET flagged == Flag(b, Range(IF r.trigger_quantity >= 1
                                      THEN Take(LegacyTriggers(r, b), r.trigger_quantity)
                                      ELSE LegacyTriggers(r, b)))
             Test(i) == flagged[i].sku = r.discounted_item.sku /\ ~flagged[i].discounted
             found == SelectSeq([i \in 1..Len(flagged) |-> i], Test)
         IN  IF found # <<>>
             THEN Claim(flagged, {found[1]}, <<0, 1>>)
             ELSE add_product(flagged, [r.discounted_item EXCEPT
                                           !.discounted_price = <<0, 1>>,
                                           !.discounted = TRUE])
    ELSE b

legacy_apply_discount(r, b) ==
    CASE r.kind = "bulk" -> LegacyBulkApply(r, b)
      [] r.kind = "free" -> LegacyFreeApply(r, b)
      [] OTHER -> b

LegacyInit ==
    /\ skus = <<>>
    /\ pos = 0
    /\ basket \in Baskets
    /\ rules \in LegacyRuleLists
    /\ sorted = <<>>
    /\ ri = 0
    /\ pc = "legacy_run"
    /\ result = 0
    /\ input = basket
    /\ prevBasket = <<>>
    /\ lastRule = NoRule
    /\ fired = 0
    /\ turnM = 0
    /\ run = 1
    /\ firstBasket = <<>>
    /\ catalog = Catalog
    /\ owner = <<>>
    /\ letters = {}

\* run of analysis.py: the basket is sorted by SKU and the set of its letters
\* is taken, before any rule is applied
LegacyRun ==
    /\ pc = "legacy_run"
    /\ basket' = SortBySku(basket)
    /\ letters' = get_basket_letters(basket')
    /\ sorted' = <<>>
    /\ ri' = 1
    /\ pc' = "legacy_letters"
    /\ UNCHANGED <<skus, pos, rules, result, input, prevBasket, lastRule, fired,
                   turnM, run, firstBasket, catalog, owner>>

\* apply_discounts of analysis.py, `for letter in basket_letters`: a set of
\* strings is iterated in an order that depends on the hash seed of the
\* process, so the next letter is any letter not taken yet; the strategies of
\* the letter, when it has any, are the ones the inner loop goes through
LegacyNextLetter ==
    /\ pc = "legacy_letters"
    /\ \E l \in letters :
          /\ letters' = letters \ {l}
          /\ IF l \in DOMAIN categorise_discount_strategies(rules)
             THEN /\ sorted' = categorise_discount_strategies(rules)[l]
                  /\ ri' = 1
                  /\ pc' = "legacy_loop"
             ELSE UNCHANGED <<sorted, ri, pc>>
    /\ fired' = 0
    /\ UNCHANGED <<skus, pos, basket, rules, result, input, prevBasket, lastRule,
                   turnM, run, firstBasket, catalog, owner>>

\* apply_discounts of analysis.py: the while test is true
LegacyApplyDiscount ==
    /\ pc = "legacy_loop"
    /\ ri <= Len(sorted)
    /\ legacy_is_applicable(CurrentRule, basket)
    /\ basket' = legacy_apply_discount(CurrentRule, basket)
    /\ prevBasket' = basket
    /\ lastRule' = CurrentRule
    /\ fired' = fired + 1
    /\ UNCHANGED <<skus, pos, rules, sorted, ri, pc, result, input, turnM,
                   run, firstBasket, catalog, owner, letters>>

\* apply_discounts of analysis.py: the while test is false, the loop over the
\* strategies of the letter moves on, and ends after the last of them
LegacyNextStrategy ==
    /\ pc = "legacy_loop"
    /\ ri <= Len(sorted)
    /\ ~legacy_is_applicable(CurrentRule, basket)
    /\ ri' = ri + 1
    /\ fired' = 0
    /\ pc' = IF ri + 1 > Len(sorted) THEN "legacy_letters" ELSE "legacy_loop"
    /\ UNCHANGED <<skus, pos, basket, rules, sorted, result, input, prevBasket,
                   lastRule, turnM, run, firstBasket, catalog, owner, letters>>

\* apply_discounts of analysis.py: every letter is taken, the basket is returned
LegacyReturn ==
    /\ pc = "legacy_letters"
    /\ letters = {}
    /\ pc' = "legacy_done"
    /\ UNCHANGED <<skus, pos, basket, rules, sorted, ri, result, input,
                   prevBasket, lastRule, fired, turnM, run, firstBasket,
                   catalog, owner, letters>>

NextLegacy ==
    \/ LegacyRun \/ LegacyNextLetter \/ LegacyApplyDiscount
    \/ LegacyNextStrategy \/ LegacyReturn

LegacySpec == LegacyInit /\ [][NextLegacy]_vars

\* The arrangements of a set of letters
LetterOrders(S) ==
    {o \in [1..Cardinality(S) -> S] :
        \A i, j \in 1..Cardinality(S) : i # j => o[i] # o[j]}

\* The strategies apply_discounts goes through when the letters come in the
\* order ord
RECURSIVE StrategiesInOrder(_, _)
StrategiesInOrder(dict, ord) ==
    IF ord = <<>> THEN <<>>
    ELSE (IF ord[1] \in DOMAIN dict THEN dict[ord[1]] ELSE <<>>)
         \o StrategiesInOrder(dict, Tail(ord))

RECURSIVE LegacyExhaustInOrder(_, _, _)
LegacyExhaustInOrder(rs, ord, b) ==
    IF ord = <<>> THEN b
    ELSE IF legacy_is_applicable(rs[ord[1]], b)
         THEN LegacyExhaustInOrder(rs, ord, legacy_apply_discount(rs[ord[1]], b))
         ELSE LegacyExhaustInOrder(rs, Tail(ord), b)

\* The basket run of analysis.py returns when the set of letters is iterated
\* in the order ord
LegacyResult(rs, b, ord) ==
    LegacyExhaustInOrder(rs, StrategiesInOrder(categorise_discount_strategies(rs), ord),
                         SortBySku(b))

\* C26: the basket the per-SKU engine returns, entry by entry, and with it the
\* total, is the same for every order in which the set of the basket's SKUs
\* is iterated: whatever order the run took, every other order of the same
\* letters gives the basket this run ended with.
C26_LetterOrderIsIrrelevant ==
    pc = "legacy_done" =>
        \A o \in LetterOrders(get_basket_letters(input)) :
            /\ LegacyResult(rules, input, o) = basket
            /\ total_price(LegacyResult(rules, input, o)) = total_price(basket)

====
